---- MODULE Spec2Model ----
(***************************************************************************)
(* Model of book_maker/translator/chatgptapi_translator.py: the paragraph  *)
(* batching and reconciliation path (translate_list, get_best_result_list, *)
(* translate, get_translation) of the ChatGPTAPI translator.               *)
(*                                                                         *)
(* A text is a sequence of one-character strings.  A paragraph is a        *)
(* sequence of such characters in which the token SUP stands for one whole *)
(* <sup> sub-element of the paragraph tag.                                 *)
(***************************************************************************)
EXTENDS Integers, Sequences, FiniteSets, TLC

\* ------------------------------------------------------------------ bounds

\* longest paragraph list handed to translate_list
MaxParagraphs == 2
\* largest number of API keys in the comma separated key string
MaxKeys == 2
\* translate_list: the backend answers at most this many lines too few
MaxUnder == 1
\* translate_list: the backend answers at most this many lines too many
MaxOver == 1
\* truncated completions the backend produces during one call
MaxLongText == 1
\* largest plist_len passed to a direct call of get_best_result_list
MaxExpected == 5
\* largest max_retries passed to a direct call of get_best_result_list
MaxRetriesArg == 3
\* direct call: the backend answers at most this many lines too few
MaxStubUnder == 2
\* direct call: the backend answers at most this many lines too many
MaxStubOver == 3
\* longest one-line completion text the backend answers a one-paragraph batch with
MaxLineLen == 3
\* longest list of one-line paragraphs handed to translate_list
MaxTextParagraphs == 3
\* longest paragraph list of a call whose backend requests are counted
MaxCountParagraphs == 1

\* ------------------------------------------------------- program constants

\* max_attempts of translate
max_attempts == 3
\* default of the max_retries parameter of get_best_result_list
DEFAULT_MAX_RETRIES == 15

\* ------------------------------------------------------------- characters

NL == "\n"
CR == "\r"
SP == " "
SUP == "<sup>"

Digits == <<"0", "1", "2", "3", "4", "5", "6", "7", "8", "9">>

IsDigit(c) == \E i \in 1..10 : Digits[i] = c

\* the characters str.strip() and the regex class \s remove
IsSpace(c) == c \in {SP, NL, CR, "\t", "\f"}

\* sep of translate_list
sep == <<NL, NL, NL, NL, NL>>

\* ---------------------------------------------------------- str functions

RECURSIVE LStrip(_)
LStrip(s) ==
    IF s # <<>> /\ IsSpace(Head(s)) THEN LStrip(Tail(s)) ELSE s

RECURSIVE RStrip(_)
RStrip(s) ==
    IF s # <<>> /\ IsSpace(s[Len(s)]) THEN RStrip(SubSeq(s, 1, Len(s) - 1)) ELSE s

\* str.strip()
Strip(s) == RStrip(LStrip(s))

StartsWith(s, p) == Len(s) >= Len(p) /\ SubSeq(s, 1, Len(p)) = p

EndsWith(s, p) == Len(s) >= Len(p) /\ SubSeq(s, Len(s) - Len(p) + 1, Len(s)) = p

RECURSIVE SplitAcc(_, _, _, _)
SplitAcc(s, d, cur, acc) ==
    IF s = <<>> THEN Append(acc, cur)
    ELSE IF StartsWith(s, d)
         THEN SplitAcc(SubSeq(s, Len(d) + 1, Len(s)), d, <<>>, Append(acc, cur))
         ELSE SplitAcc(Tail(s), d, Append(cur, Head(s)), acc)

\* str.split(d) for a non-empty delimiter d: never an empty list
Split(s, d) == SplitAcc(s, d, <<>>, <<>>)

RECURSIVE Join(_, _)
\* d.join(parts)
Join(parts, d) ==
    IF parts = <<>> THEN <<>>
    ELSE IF Len(parts) = 1 THEN parts[1]
    ELSE parts[1] \o d \o Join(Tail(parts), d)

RECURSIVE Replace(_, _, _)
\* str.replace(old, new) for a non-empty old
Replace(s, old, new) ==
    IF s = <<>> THEN <<>>
    ELSE IF StartsWith(s, old)
         THEN new \o Replace(SubSeq(s, Len(old) + 1, Len(s)), old, new)
         ELSE <<Head(s)>> \o Replace(Tail(s), old, new)

RECURSIVE DecStr(_)
\* the decimal digits of a natural number, as an f-string formats it
DecStr(n) ==
    IF n < 10 THEN <<Digits[n + 1]>>
    ELSE DecStr(n \div 10) \o <<Digits[(n % 10) + 1]>>

\* ------------------------------------------------------------- join_lines

RECURSIVE JoinLoop(_, _, _)
\* the for loop of join_lines over the remaining lines, with temp_line and
\* new_lines, followed by the final flush of temp_line
JoinLoop(lines, temp_line, new_lines) ==
    IF lines = <<>>
    THEN IF temp_line # <<>>
         THEN Append(new_lines, Join(temp_line, <<SP>>))
         ELSE new_lines
    ELSE LET line == Head(lines) IN
         IF Strip(line) # <<>>
         THEN JoinLoop(Tail(lines), Append(temp_line, Strip(line)), new_lines)
         ELSE IF temp_line # <<>>
              THEN JoinLoop(Tail(lines), <<>>,
                            Append(Append(new_lines, Join(temp_line, <<SP>>)), line))
              ELSE JoinLoop(Tail(lines), <<>>, Append(new_lines, line))

\* join_lines leaving soft-wrapped lines apart
join_lines_unjoined(text) == text

NotLoneCR(line) == Strip(line) # <<CR>>

join_lines(text) ==
    LET joined == Join(JoinLoop(Split(text, <<NL>>), <<>>, <<>>), <<NL>>)
        ctrl == Replace(joined, <<"^", "M">>, <<CR>>)
        filtered_lines == SelectSeq(Split(ctrl, <<NL>>), NotLoneCR)
    IN  Join(filtered_lines, <<NL>>)

\* ------------------------------------------------------------ the Batcher

NotSup(c) == c # SUP

\* temp_p = copy(p); every <sup> extracted; temp_p.get_text().strip()
ParagraphText(p) == Strip(SelectSeq(p, NotSup))

RECURSIVE PackFrom(_, _)
\* the for loop of translate_list: new_str += f"({i}) {text}{sep}"
PackFrom(ps, i) ==
    IF ps = <<>> THEN <<>>
    ELSE <<"(">> \o DecStr(i) \o <<")", SP>> \o ParagraphText(Head(ps)) \o sep
         \o PackFrom(Tail(ps), i + 1)

\* new_str of translate_list, as sent to the backend
Pack(ps) ==
    LET packed == PackFrom(ps, 1)
        cut == IF EndsWith(packed, sep)
               THEN SubSeq(packed, 1, Len(packed) - Len(sep))
               ELSE packed
    IN  join_lines(cut)

\* ---------------------------------------------------- the ResponseSplitter

NotBlank(line) == Strip(line) # <<>>

RECURSIVE StripAll(_)
StripAll(lines) ==
    IF lines = <<>> THEN <<>> ELSE <<Strip(Head(lines))>> \o StripAll(Tail(lines))

\* translate_and_split_lines keeping the blank lines
SplitLinesKeepBlank(result_str) == StripAll(Split(result_str, <<NL>>))

\* translate_and_split_lines, applied to the text translate returned
SplitLines(result_str) == StripAll(SelectSeq(Split(result_str, <<NL>>), NotBlank))

\* ---------------------------------------------------- the PrefixNormalizer

RECURSIVE DigitRun(_)
\* length of the longest run of digits at the start of s
DigitRun(s) ==
    IF s # <<>> /\ IsDigit(Head(s)) THEN 1 + DigitRun(Tail(s)) ELSE 0

Drop(s, n) == SubSeq(s, n + 1, Len(s))

\* the pattern without its trailing \s*
StripPrefixKeepSpace(s) ==
    LET d0 == DigitRun(s)
        d1 == IF s # <<>> /\ Head(s) = "(" THEN DigitRun(Tail(s)) ELSE 0
    IN  IF d1 > 0 /\ Len(s) >= d1 + 2 /\ s[d1 + 2] = ")"
        THEN Drop(s, d1 + 2)
        ELSE IF d0 > 0 /\ Len(s) >= d0 + 1 /\ s[d0 + 1] = "."
        THEN Drop(s, d0 + 1)
        ELSE IF d0 > 0
        THEN Drop(s, d0)
        ELSE s

\* re.sub(r"^(\(\d+\)|\d+\.|(\d+))\s*", "", s)
StripPrefix(s) ==
    LET d0 == DigitRun(s)
        d1 == IF s # <<>> /\ Head(s) = "(" THEN DigitRun(Tail(s)) ELSE 0
    IN  IF d1 > 0 /\ Len(s) >= d1 + 2 /\ s[d1 + 2] = ")"
        THEN LStrip(Drop(s, d1 + 2))
        ELSE IF d0 > 0 /\ Len(s) >= d0 + 1 /\ s[d0 + 1] = "."
        THEN LStrip(Drop(s, d0 + 1))
        ELSE IF d0 > 0
        THEN LStrip(Drop(s, d0))
        ELSE s

RECURSIVE StripPrefixAll(_)
StripPrefixAll(lines) ==
    IF lines = <<>> THEN <<>>
    ELSE <<StripPrefix(Head(lines))>> \o StripPrefixAll(Tail(lines))

\* ------------------------------------------------------------------ state

VARIABLES
    pc,                \* where the single thread of control is
    plist,             \* translate_list: the paragraphs of the batch
    new_str,           \* translate_list: the packed request text
    plist_len,         \* the expected paragraph count
    max_retries,       \* get_best_result_list: its max_retries parameter
    result_list,       \* get_best_result_list: the latest candidate
    best_result_list,  \* get_best_result_list: the best candidate so far
    retry_count,       \* get_best_result_list: reconciliation retries done
    out,               \* what get_best_result_list returned: <<list, count>>
    attempt_count,     \* translate: consecutive failed attempts
    t_text,            \* translate: the text it returns
    key_len,           \* ChatGPTAPI.key_len
    keys,              \* position of the Base.keys cycle iterator
    api_key,           \* openai.api_key: index of the key in use, -1 unset
    completion,        \* outcome of the latest create_chat_completion
    long_text,         \* records appended to log/long_text.txt by this call
    buglog,            \* records appended to log/buglog.txt by this call
    ret,               \* what translate_list returned
    tcalls,            \* get_translation calls of the current translate call
    translate_calls,   \* translate calls of the current translate_list call
    backoffs,          \* time.sleep(sleep_dur) calls of the current call
    served,            \* create_chat_completion calls so far, modulo key_len
    passthrough,       \* every completion so far echoed the request, untruncated
    cands,             \* candidate lengths so far, while they follow a scenario
    req_text,          \* translate: its text parameter, the request text
    requests           \* backend requests of the current call, -1: not counted

vars == <<pc, plist, new_str, plist_len, max_retries, result_list,
          best_result_list, retry_count, out, attempt_count, t_text, key_len,
          keys, api_key, completion, long_text, buglog, ret, tcalls,
          translate_calls, backoffs, served, passthrough, cands,
          req_text, requests>>

\* the variables of one translate_list call that only its first and last
\* steps change
batch == <<plist, new_str, plist_len, max_retries, buglog, ret>>

\* ----------------------------------------------------------------- inputs

\* a soft-wrapped paragraph with a footnote marker and a ^M, and a paragraph
\* with a blank line inside
Paragraphs ==
    { <<SP, "a", SUP, NL, "^", "M", "b", SP>>,
      <<"a", NL, NL, "b">> }

RECURSIVE ListsUpTo(_)
ListsUpTo(n) ==
    IF n = 0 THEN { <<>> }
    ELSE LET shorter == ListsUpTo(n - 1) IN
         shorter \cup { Append(ps, p) : ps \in { l \in shorter : Len(l) = n - 1 },
                                        p \in Paragraphs }

\* the paragraph lists translate_list is called with
Plists == ListsUpTo(MaxParagraphs)

RECURSIVE NumberedLines(_, _)
NumberedLines(i, n) ==
    IF i > n THEN <<>>
    ELSE <<SP, "(">> \o DecStr(i) \o <<")", SP, "x", NL, NL>> \o NumberedLines(i + 1, n)

\* a completion text of n numbered lines, separated by blank lines
Lines(n) == NumberedLines(1, n)

\* Lines, tabulated up to the longest completion of this model
LinesTable == [k \in 0..(MaxExpected + MaxStubOver + MaxParagraphs + MaxOver) |-> Lines(k)]

LineCounts(n, under, over) == { k \in (n - under)..(n + over) : k >= 0 }

\* the completion texts the backend may answer a request for n paragraphs
\* with: the request itself, or a text of about n lines
BackendTexts(text, n) == {text} \cup { LinesTable[k] : k \in LineCounts(n, MaxUnder, MaxOver) }

\* the same for the stub backend of a direct get_best_result_list call
StubTexts(n) == { LinesTable[k] : k \in LineCounts(n, MaxStubUnder, MaxStubOver) }

\* the characters of the one-line completion texts
LineChars == {"(", "1", ")", ".", SP, "a"}

RECURSIVE SeqsUpTo(_, _)
\* the sequences of at most n elements of S
SeqsUpTo(S, n) ==
    IF n = 0 THEN { <<>> }
    ELSE LET shorter == SeqsUpTo(S, n - 1) IN
         shorter \cup { Append(q, x) : q \in { l \in shorter : Len(l) = n - 1 },
                                       x \in S }

\* completion texts of at most one line: any characters, blank texts included
LineTexts == SeqsUpTo(LineChars, MaxLineLen)

\* paragraphs of one line: plain ones, one with a space in front, one with a
\* ^M inside and one with a footnote marker
TextParagraphs ==
    { <<"a">>, <<"b">>, <<"c">>, <<SP, "a">>, <<"a", "^", "M", "b">>, <<"b", SUP>> }

\* the lists of one-line paragraphs translate_list is called with
TextPlists == SeqsUpTo(TextParagraphs, MaxTextParagraphs)

\* Pack, tabulated over the paragraph lists
PackTable == [ps \in Plists \cup TextPlists |-> Pack(ps)]

\* the completion texts of a backend that answers the request "(1) a" with
\* any text of at most one line
TextAnswers(request) ==
    IF request = <<"(", "1", ")", SP, "a">> THEN LineTexts ELSE {}

\* every text of several lines a backend of this model can answer with
AllTexts ==
    { PackTable[ps] : ps \in Plists \cup TextPlists }
    \cup UNION { BackendTexts(<<"x">>, n) : n \in 0..MaxParagraphs }
    \cup UNION { StubTexts(n) : n \in 0..MaxExpected }

\* SplitLines, tabulated over the texts the backend can answer with
SplitTable == [t \in AllTexts |-> SplitLines(t)]

\* the candidate sequences of the two documented scenarios (expected = 5)
Scenarios == { <<3, 4, 4, 5>>, <<7, 6, 8>> }

ScenarioPrefixes == UNION { { SubSeq(sc, 1, k) : k \in 1..Len(sc) } : sc \in Scenarios }

\* cands after one more candidate of length n: it is followed only while it
\* is the beginning of a documented scenario
Track(c, n) ==
    IF c # <<>> /\ Append(c, n) \in ScenarioPrefixes THEN Append(c, n) ELSE <<>>

\* ------------------------------------------------------------------- Init

Init ==
    /\ pc = "idle"
    /\ plist = <<>>
    /\ new_str = <<>>
    /\ plist_len = 0
    /\ max_retries = DEFAULT_MAX_RETRIES
    /\ result_list = <<>>
    /\ best_result_list = <<>>
    /\ retry_count = 0
    /\ out = <<>>
    /\ attempt_count = 0
    /\ t_text = <<>>
    /\ key_len = 1
    /\ keys = 0
    /\ api_key = -1
    /\ completion = "none"
    /\ long_text = <<>>
    /\ buglog = <<>>
    /\ ret = <<>>
    /\ tcalls = 0
    /\ translate_calls = 0
    /\ backoffs = 0
    /\ served = 0
    /\ passthrough = TRUE
    /\ cands = <<>>
    /\ req_text = <<>>
    /\ requests = -1

\* ---------------------------------------------------------- translate_list

\* translate_list up to its first translate_and_split_lines call
TranslateListBegin(ps) ==
    /\ pc \in {"idle", "returned", "raised"}
    /\ plist' = ps
    /\ new_str' = PackTable[ps]
    /\ plist_len' = Len(ps)
    /\ max_retries' = DEFAULT_MAX_RETRIES
    /\ result_list' = <<>>
    /\ best_result_list' = <<>>
    /\ retry_count' = 0
    /\ out' = <<>>
    /\ attempt_count' = 0
    /\ t_text' = <<>>
    /\ completion' = "none"
    /\ long_text' = <<>>
    /\ buglog' = <<>>
    /\ ret' = <<>>
    /\ tcalls' = 0
    /\ translate_calls' = 1
    /\ backoffs' = 0
    /\ passthrough' = TRUE
    /\ req_text' = PackTable[ps]
    /\ requests' = IF requests < 0 THEN requests ELSE 0
    /\ pc' = "translate_initial"
    /\ UNCHANGED <<key_len, keys, api_key, served, cands>>

\* ------------------------------------------------------------- rotate_key

\* the position of the key cycle after the key at position k was taken
NextKey(k, n) == (k + 1) % n

\* openai.api_key = next(self.keys)
rotate_key ==
    /\ api_key' = keys
    /\ keys' = NextKey(keys, key_len)

\* ------------------------------------------------- get_best_result_list

\* TieBreak without the ceiling on a longer candidate
TieBreakNoCeiling(best, result, n) ==
    \/ Len(result) = n
    \/ Len(best) < Len(result)
    \/ (Len(result) < Len(best) /\ Len(best) > n)

\* TieBreak that never gives up an overshooting best
TieBreakNoShrink(best, result, n) ==
    \/ Len(result) = n
    \/ (Len(best) < Len(result) /\ Len(result) <= n)

\* TieBreak without its first clause and with a strict ceiling
TieBreakStrict(best, result, n) ==
    \/ (Len(best) < Len(result) /\ Len(result) < n)
    \/ (Len(result) < Len(best) /\ Len(best) > n)

\* TieBreak taking whichever list is nearer to the expected length
TieBreakNearer(best, result, n) ==
    LET dist(l) == IF Len(l) >= n THEN Len(l) - n ELSE n - Len(l)
    IN  dist(result) < dist(best)

\* the condition under which the new candidate replaces best_result_list
TieBreak(best, result, n) ==
    \/ Len(result) = n
    \/ (Len(best) < Len(result) /\ Len(result) <= n)
    \/ (Len(result) < Len(best) /\ Len(best) > n)

\* the loop guard without the bound on the retries
LoopGuardNoBound == Len(result_list) # plist_len

\* the loop guard, off by one
LoopGuardOffByOne == retry_count <= max_retries /\ Len(result_list) # plist_len

\* while retry_count < max_retries and len(result_list) != plist_len
LoopGuard == retry_count < max_retries /\ Len(result_list) # plist_len

\* if len(result_list) == plist_len: return result_list, 0
GbrlEarlyReturn ==
    /\ pc = "gbrl"
    /\ Len(result_list) = plist_len
    /\ out' = <<result_list, 0>>
    /\ pc' = "gbrl_done"
    /\ UNCHANGED <<batch, result_list, best_result_list, retry_count,
                   attempt_count, t_text, key_len, keys, api_key, completion,
                   long_text, tcalls, translate_calls, backoffs, served,
                   passthrough, cands, req_text, requests>>

\* get_best_result_list without its early return
GbrlInitUnguarded ==
    /\ pc = "gbrl"
    /\ best_result_list' = result_list
    /\ retry_count' = 0
    /\ pc' = "while"
    /\ UNCHANGED <<batch, result_list, out, attempt_count, t_text, key_len,
                   keys, api_key, completion, long_text, tcalls,
                   translate_calls, backoffs, served, passthrough, cands,
                   req_text, requests>>

\* best_result_list = result_list; retry_count = 0
GbrlInit ==
    /\ pc = "gbrl"
    /\ Len(result_list) # plist_len
    /\ best_result_list' = result_list
    /\ retry_count' = 0
    /\ pc' = "while"
    /\ UNCHANGED <<batch, result_list, out, attempt_count, t_text, key_len,
                   keys, api_key, completion, long_text, tcalls,
                   translate_calls, backoffs, served, passthrough, cands,
                   req_text, requests>>

\* the loop is entered once more without a sleep
WhileSleepSkipped ==
    /\ pc = "while"
    /\ LoopGuard
    /\ pc' = "slept"
    /\ UNCHANGED <<batch, result_list, best_result_list, retry_count, out,
                   attempt_count, t_text, key_len, keys, api_key, completion,
                   long_text, tcalls, translate_calls, backoffs, served,
                   passthrough, cands, req_text, requests>>

\* the loop is entered once more: time.sleep(sleep_dur)
WhileSleep ==
    /\ pc = "while"
    /\ LoopGuard
    /\ backoffs' = backoffs + 1
    /\ pc' = "slept"
    /\ UNCHANGED <<batch, result_list, best_result_list, retry_count, out,
                   attempt_count, t_text, key_len, keys, api_key, completion,
                   long_text, tcalls, translate_calls, served, passthrough,
                   cands, req_text, requests>>

\* a retry that sends the text of the completion before it
WhileRetryStale ==
    /\ pc = "slept"
    /\ retry_count' = retry_count + 1
    /\ translate_calls' = translate_calls + 1
    /\ req_text' = t_text
    /\ attempt_count' = 0
    /\ t_text' = <<>>
    /\ tcalls' = 0
    /\ pc' = "translate_retry"
    /\ UNCHANGED <<batch, result_list, best_result_list, out, key_len, keys,
                   api_key, completion, long_text, backoffs, served,
                   passthrough, cands, requests>>

\* retry_count += 1, and the call of translate_and_split_lines(new_str) up
\* to the while loop of translate
WhileRetry ==
    /\ pc = "slept"
    /\ retry_count' = retry_count + 1
    /\ translate_calls' = translate_calls + 1
    /\ req_text' = new_str
    /\ attempt_count' = 0
    /\ t_text' = <<>>
    /\ tcalls' = 0
    /\ pc' = "translate_retry"
    /\ UNCHANGED <<batch, result_list, best_result_list, out, key_len, keys,
                   api_key, completion, long_text, backoffs, served,
                   passthrough, cands, requests>>

\* the loop ends: return best_result_list, retry_count
WhileExit ==
    /\ pc = "while"
    /\ ~LoopGuard
    /\ out' = <<best_result_list, retry_count>>
    /\ pc' = "gbrl_done"
    /\ UNCHANGED <<batch, result_list, best_result_list, retry_count,
                   attempt_count, t_text, key_len, keys, api_key, completion,
                   long_text, tcalls, translate_calls, backoffs, served,
                   passthrough, cands, req_text, requests>>

\* -------------------------------------------- translate / get_translation

InTranslate == pc \in {"translate_initial", "translate_retry"}

\* get_translation returned text: translate leaves its loop and returns it,
\* translate_and_split_lines splits it, and the caller takes the lines:
\* line 288 of translate_list or lines 186-195 of get_best_result_list
Returned(text) ==
    LET lines == IF text \in LineTexts THEN SplitLines(text) ELSE SplitTable[text] IN
    /\ t_text' = text
    /\ result_list' = lines
    /\ cands' = Track(cands, Len(lines))
    /\ IF pc = "translate_initial"
       THEN /\ pc' = "gbrl"
            /\ UNCHANGED best_result_list
       ELSE /\ pc' = "while"
            /\ best_result_list' =
                   IF TieBreak(best_result_list, lines, plist_len)
                   THEN lines ELSE best_result_list
    /\ UNCHANGED attempt_count

\* translate re-raising the first exception
FailedFatal ==
    /\ attempt_count' = attempt_count + 1
    /\ pc' = "raised"
    /\ UNCHANGED <<t_text, result_list, best_result_list, cands>>

\* translate never re-raising
FailedSwallowed ==
    /\ attempt_count' = attempt_count + 1
    /\ pc' = pc
    /\ UNCHANGED <<t_text, result_list, best_result_list, cands>>

\* a failure of a reconciliation retry caught by the loop, which goes on
\* with the best candidate
FailedKeepsBest ==
    /\ attempt_count' = attempt_count + 1
    /\ pc' = IF attempt_count + 1 = max_attempts
             THEN (IF pc = "translate_retry" THEN "while" ELSE "raised")
             ELSE pc
    /\ UNCHANGED <<t_text, result_list, best_result_list, cands>>

\* get_translation raised: the except branch of translate sleeps, counts the
\* attempt and re-raises once attempt_count == max_attempts
Failed ==
    /\ attempt_count' = attempt_count + 1
    /\ pc' = IF attempt_count + 1 = max_attempts THEN "raised" ELSE pc
    /\ UNCHANGED <<t_text, result_list, best_result_list, cands>>

\* the start of get_translation: rotate_key and create_chat_completion
Request ==
    /\ InTranslate
    /\ attempt_count < max_attempts
    /\ rotate_key
    /\ served' = (served + 1) % key_len
    /\ tcalls' = tcalls + 1
    /\ requests' = IF requests < 0 THEN requests ELSE requests + 1

\* create_chat_completion returns a normally finished completion
GetTranslationStop(content) ==
    /\ Request
    /\ completion' = "stop"
    /\ passthrough' = (passthrough /\ content = req_text)
    /\ Returned(content)
    /\ UNCHANGED <<batch, retry_count, out, key_len, long_text,
                   translate_calls, backoffs, req_text>>

\* a truncated completion handled as a failed attempt
GetTranslationLengthRaises(content) ==
    /\ Request
    /\ Len(long_text) < MaxLongText
    /\ completion' = "length"
    /\ long_text' = Append(long_text, req_text)
    /\ passthrough' = FALSE
    /\ Failed
    /\ UNCHANGED <<batch, retry_count, out, key_len, translate_calls, backoffs,
                   req_text>>

\* create_chat_completion returns a completion with finish_reason "length":
\* the request text is appended to log/long_text.txt
GetTranslationLength(content) ==
    /\ Request
    /\ Len(long_text) < MaxLongText
    /\ completion' = "length"
    /\ long_text' = Append(long_text, req_text)
    /\ passthrough' = FALSE
    /\ Returned(content)
    /\ UNCHANGED <<batch, retry_count, out, key_len, translate_calls, backoffs,
                   req_text>>

\* a failing attempt that keeps the key of the attempt before it
GetTranslationErrorNoRotate ==
    /\ InTranslate
    /\ attempt_count < max_attempts
    /\ served' = (served + 1) % key_len
    /\ tcalls' = tcalls + 1
    /\ requests' = IF requests < 0 THEN requests ELSE requests + 1
    /\ completion' = "error"
    /\ passthrough' = FALSE
    /\ Failed
    /\ UNCHANGED <<batch, retry_count, out, key_len, keys, api_key, long_text,
                   translate_calls, backoffs, req_text>>

\* create_chat_completion raises: completion is still {} and the except
\* branch of get_translation re-raises
GetTranslationError ==
    /\ Request
    /\ completion' = "error"
    /\ passthrough' = FALSE
    /\ Failed
    /\ UNCHANGED <<batch, retry_count, out, key_len, long_text,
                   translate_calls, backoffs, req_text>>

\* create_chat_completion returns a completion without choices:
\* completion["choices"][0] raises KeyError after the try statement
GetTranslationMalformed ==
    /\ Request
    /\ completion' = "malformed"
    /\ passthrough' = FALSE
    /\ Failed
    /\ UNCHANGED <<batch, retry_count, out, key_len, long_text,
                   translate_calls, backoffs, req_text>>

\* --------------------------------------------------- translate_list, tail

\* log_retry without its early return
log_retry_always(log, state, count) ==
    Append(log, [kind |-> "retry", state |-> state, count |-> count])

\* log_retry: one record unless retry_count == 0
log_retry(log, state, count) ==
    IF count = 0 THEN log
    ELSE Append(log, [kind |-> "retry", state |-> state, count |-> count])

Min(a, b) == IF a < b THEN a ELSE b

\* log_translation_mismatch recording only a list that is too short
log_translation_mismatch_short(log, n, list, text) ==
    IF Len(list) >= n THEN log
    ELSE Append(log, [kind |-> "mismatch",
                      size |-> n - Len(list),
                      request |-> Split(text, sep),
                      response |-> list])

\* log_translation_mismatch: one record unless the lengths agree
log_translation_mismatch(log, n, list, text) ==
    IF Len(list) = n THEN log
    ELSE LET newlist == Split(text, sep) IN
         Append(log, [kind |-> "mismatch",
                      size |-> n - Len(list),
                      request |-> newlist,
                      response |-> SubSeq(list, 1, Min(Len(newlist), Len(list)))])

\* translate_list after get_best_result_list returned
TranslateListFinish ==
    /\ pc = "gbrl_done"
    /\ LET list == out[1]
           count == out[2]
           state == IF Len(list) # plist_len THEN "fail" ELSE "success"
       IN  /\ buglog' = log_translation_mismatch(
                            log_retry(buglog, state, count), plist_len, list, new_str)
           /\ ret' = StripPrefixAll(list)
    /\ pc' = "returned"
    /\ UNCHANGED <<plist, new_str, plist_len, max_retries, result_list,
                   best_result_list, retry_count, out, attempt_count, t_text,
                   key_len, keys, api_key, completion, long_text, tcalls,
                   translate_calls, backoffs, served, passthrough, cands,
                   req_text, requests>>

\* ------------------------------------------------------------------- Spec

Next ==
    \/ \E ps \in Plists : TranslateListBegin(ps)
    \/ \E t \in BackendTexts(req_text, plist_len) : GetTranslationStop(t)
    \/ \E t \in BackendTexts(req_text, plist_len) : GetTranslationLength(t)
    \/ GetTranslationError
    \/ GetTranslationMalformed
    \/ GbrlEarlyReturn
    \/ GbrlInit
    \/ WhileSleep
    \/ WhileRetry
    \/ WhileExit
    \/ TranslateListFinish

Spec == Init /\ [][Next]_vars

\* ------------------------------------------ get_best_result_list, directly

\* a direct call get_best_result_list(plist_len, new_str, sleep_dur,
\* result_list, max_retries) on a translator with a stub backend
InitBest ==
    /\ pc = "gbrl"
    /\ plist = <<>>
    /\ new_str = <<"x">>
    /\ plist_len \in 0..MaxExpected
    /\ max_retries \in 0..MaxRetriesArg
    /\ result_list \in { SplitTable[t] : t \in StubTexts(plist_len) }
    /\ best_result_list = <<>>
    /\ retry_count = 0
    /\ out = <<>>
    /\ attempt_count = 0
    /\ t_text = <<>>
    /\ key_len = 1
    /\ keys = 0
    /\ api_key = -1
    /\ completion = "none"
    /\ long_text = <<>>
    /\ buglog = <<>>
    /\ ret = <<>>
    /\ tcalls = 0
    /\ translate_calls = 0
    /\ backoffs = 0
    /\ served = 0
    /\ passthrough = FALSE
    /\ cands = IF <<Len(result_list)>> \in ScenarioPrefixes
               THEN <<Len(result_list)>> ELSE <<>>
    /\ req_text = <<>>
    /\ requests = -1

NextBest ==
    \/ \E t \in StubTexts(plist_len) : GetTranslationStop(t)
    \/ \E t \in StubTexts(plist_len) : GetTranslationLength(t)
    \/ GetTranslationError
    \/ GetTranslationMalformed
    \/ GbrlEarlyReturn
    \/ GbrlInit
    \/ WhileSleep
    \/ WhileRetry
    \/ WhileExit

SpecBest == InitBest /\ [][NextBest]_vars

\* ------------------------------------------------------ several API keys

\* a translator constructed with any number of keys
InitKeys ==
    /\ pc = "idle"
    /\ plist = <<>>
    /\ new_str = <<>>
    /\ plist_len = 0
    /\ max_retries = DEFAULT_MAX_RETRIES
    /\ result_list = <<>>
    /\ best_result_list = <<>>
    /\ retry_count = 0
    /\ out = <<>>
    /\ attempt_count = 0
    /\ t_text = <<>>
    /\ key_len \in 1..MaxKeys
    /\ keys = 0
    /\ api_key = -1
    /\ completion = "none"
    /\ long_text = <<>>
    /\ buglog = <<>>
    /\ ret = <<>>
    /\ tcalls = 0
    /\ translate_calls = 0
    /\ backoffs = 0
    /\ served = 0
    /\ passthrough = TRUE
    /\ cands = <<>>
    /\ req_text = <<>>
    /\ requests = -1

\* batches of one paragraph, answered by an echo or by an empty completion
NextKeys ==
    \/ \E ps \in { ps \in Plists : Len(ps) = 1 } : TranslateListBegin(ps)
    \/ \E t \in {req_text, LinesTable[0]} : GetTranslationStop(t)
    \/ GetTranslationError
    \/ GetTranslationMalformed
    \/ GbrlEarlyReturn
    \/ GbrlInit
    \/ WhileSleep
    \/ WhileRetry
    \/ WhileExit
    \/ TranslateListFinish

SpecKeys == InitKeys /\ [][NextKeys]_vars

\* ------------------------------------------------------ one-line batches

\* one call of translate_list on a list of one-line paragraphs, over a
\* backend that never fails and echoes its request or answers with one line
NextText ==
    \/ pc = "idle" /\ \E ps \in TextPlists : TranslateListBegin(ps)
    \/ GetTranslationStop(req_text)
    \/ InTranslate /\ \E t \in TextAnswers(req_text) : GetTranslationStop(t)
    \/ GbrlEarlyReturn
    \/ GbrlInit
    \/ WhileSleep
    \/ WhileRetry
    \/ WhileExit
    \/ TranslateListFinish

SpecText == Init /\ [][NextText]_vars

\* ------------------------------------------------- counted backend requests

\* a translator whose backend requests are counted per translate_list call
InitCount ==
    /\ pc = "idle"
    /\ plist = <<>>
    /\ new_str = <<>>
    /\ plist_len = 0
    /\ max_retries = DEFAULT_MAX_RETRIES
    /\ result_list = <<>>
    /\ best_result_list = <<>>
    /\ retry_count = 0
    /\ out = <<>>
    /\ attempt_count = 0
    /\ t_text = <<>>
    /\ key_len = 1
    /\ keys = 0
    /\ api_key = -1
    /\ completion = "none"
    /\ long_text = <<>>
    /\ buglog = <<>>
    /\ ret = <<>>
    /\ tcalls = 0
    /\ translate_calls = 0
    /\ backoffs = 0
    /\ served = 0
    /\ passthrough = TRUE
    /\ cands = <<>>
    /\ req_text = <<>>
    /\ requests = 0

\* the steps of a running translate_list call, over a backend that echoes
\* the request, answers with an empty completion or fails
CallStep ==
    \/ \E t \in {req_text, LinesTable[0]} : GetTranslationStop(t)
    \/ GetTranslationError
    \/ GetTranslationMalformed
    \/ GbrlEarlyReturn
    \/ GbrlInit
    \/ WhileSleep
    \/ WhileRetry
    \/ WhileExit
    \/ TranslateListFinish

\* batches of at most MaxCountParagraphs paragraphs
NextCount ==
    \/ \E ps \in { ps \in Plists : Len(ps) <= MaxCountParagraphs } : TranslateListBegin(ps)
    \/ CallStep

\* the thread of a call runs on: every backend call returns or fails, and
\* every sleep ends
SpecCount == InitCount /\ [][NextCount]_vars /\ WF_vars(CallStep)

\* ----------------------------------------------------------------- claims

\* a candidate has just been taken by the loop of get_best_result_list
CandidateStep == pc = "translate_retry" /\ pc' = "while"

Dist(list) == IF Len(list) >= plist_len THEN Len(list) - plist_len
              ELSE plist_len - Len(list)

\* C1 as stated: whatever the candidate, best_result_list is afterwards no
\* farther from the expected count than before, and an exact best stays exact
C1_Monotone ==
    [][CandidateStep =>
          /\ Dist(best_result_list') <= Dist(best_result_list)
          /\ (Len(best_result_list) = plist_len
                 => Len(best_result_list') = plist_len)]_vars

\* C1, amended: the distance of best_result_list from the expected count
\* grows only in a step that gives up a best that is too long for a shorter
\* candidate that is too short; a best that is not too long never gets
\* farther, and an exact best stays exact
C1_MonotoneFromBelow ==
    [][CandidateStep =>
          /\ \/ Dist(best_result_list') <= Dist(best_result_list)
             \/ /\ Len(best_result_list) > plist_len
                /\ Len(best_result_list') < plist_len
                /\ best_result_list' = result_list'
          /\ (Len(best_result_list) <= plist_len
                 => Dist(best_result_list') <= Dist(best_result_list))
          /\ (Len(best_result_list) = plist_len
                 => Len(best_result_list') = plist_len)]_vars

\* a best of 7 lines was given up for a candidate of 6 lines, expected 5
C1_Witness ==
    /\ pc = "while"
    /\ plist_len = 5
    /\ cands = <<7, 6>>
    /\ Len(best_result_list) = 6

ScenarioA ==
    (pc = "gbrl_done" /\ plist_len = 5 /\ max_retries = 3 /\ cands = <<3, 4, 4, 5>>)
        => (Len(out[1]) = 5 /\ out[2] = 3)

ScenarioB ==
    (pc = "gbrl_done" /\ plist_len = 5 /\ max_retries = 2 /\ cands = <<7, 6, 8>>)
        => (Len(out[1]) = 6 /\ out[2] = 2)

\* C2: a retry replaces best_result_list by the new candidate exactly when
\* the candidate has the expected length, or is longer than best and not
\* longer than expected, or is shorter than a best that is too long; and the
\* candidate lengths 3,4,4,5 (max_retries 3) end with 5 lines and 3 retries,
\* the lengths 7,6,8 (max_retries 2) with 6 lines and 2 retries, expected 5
C2_TieBreakRule ==
    /\ [][CandidateStep =>
             IF \/ Len(result_list') = plist_len
                \/ (Len(best_result_list) < Len(result_list')
                       /\ Len(result_list') <= plist_len)
                \/ (Len(result_list') < Len(best_result_list)
                       /\ Len(best_result_list) > plist_len)
             THEN best_result_list' = result_list'
             ELSE best_result_list' = best_result_list]_vars
    /\ [](ScenarioA /\ ScenarioB)

\* the second scenario has run to its end
C2_Witness ==
    /\ pc = "gbrl_done"
    /\ plist_len = 5
    /\ max_retries = 2
    /\ cands = <<7, 6, 8>>
    /\ out[2] = 2

HasMismatchRecord == \E i \in 1..Len(buglog) : buglog[i].kind = "mismatch"

\* C3: translate_list raises only out of a failed backend attempt; with the
\* retries used up without a match it returns the best candidate, and it
\* writes a mismatch record exactly when the returned list has not the
\* expected length
C3_MismatchIsSoft ==
    /\ (pc = "raised"
           => completion \in {"error", "malformed"} /\ attempt_count = max_attempts)
    /\ (pc = "while" /\ ~LoopGuard => ENABLED WhileExit)
    /\ (pc = "gbrl_done" => ENABLED TranslateListFinish)
    /\ (pc = "returned"
           => /\ HasMismatchRecord <=> Len(ret) # plist_len
              /\ Len(ret) = Len(out[1])
              /\ (Len(ret) # plist_len
                     => /\ out[2] = max_retries
                        /\ out[1] = best_result_list
                        /\ ret = StripPrefixAll(best_result_list)))

\* every retry was used and the list returned is still not as long as expected
C3_Witness ==
    /\ pc = "returned"
    /\ out[2] = DEFAULT_MAX_RETRIES
    /\ Len(ret) # plist_len
    /\ HasMismatchRecord

\* a candidate of the expected length has been obtained
Matched ==
    /\ pc \in {"gbrl", "while", "gbrl_done", "returned"}
    /\ Len(result_list) = plist_len

\* C4: retry_count never exceeds max_retries; a retry starts only while
\* retry_count < max_retries and neither the latest candidate nor best has
\* the expected length; once a candidate has the expected length the call
\* makes no further backend call and sleeps no more
C4_BoundedLoop ==
    /\ [](retry_count <= max_retries)
    /\ [](pc \in {"gbrl_done", "returned"} => out[2] <= max_retries)
    /\ [][retry_count' = retry_count + 1 =>
             /\ retry_count < max_retries
             /\ Len(result_list) # plist_len
             /\ Len(best_result_list) # plist_len]_vars
    /\ [][Matched =>
             \/ /\ pc' \in {"gbrl_done", "returned"}
                /\ tcalls' = tcalls
                /\ translate_calls' = translate_calls
                /\ backoffs' = backoffs
                /\ served' = served
             \/ pc = "returned" /\ pc' = "translate_initial"]_vars

\* the loop stopped at a match before the retries were used up
C4_Witness ==
    /\ pc = "gbrl_done"
    /\ out[2] > 0
    /\ out[2] < max_retries
    /\ Len(out[1]) = plist_len

\* get_best_result_list is entered with the first candidate
AtEntry == pc = "gbrl"

\* the call went through without a reconciliation retry
NoRetry ==
    /\ retry_count = 0
    /\ backoffs = 0
    /\ translate_calls = 1

\* C5 as stated: entered with expected == 0 or with a first candidate of the
\* expected length, get_best_result_list returns at once with zero retries
C5_ZeroOrMatch ==
    [][AtEntry /\ (plist_len = 0 \/ Len(result_list) = plist_len) =>
          /\ pc' = "gbrl_done"
          /\ out' = <<result_list, 0>>
          /\ NoRetry']_vars

\* C5, amended: entered with a first candidate of the expected length (for
\* expected == 0: an empty first candidate), get_best_result_list returns
\* it at once with zero retries, and translate_list returns without a
\* backoff sleep, without a second translate request and without a record
\* in the mismatch log; expected == 0 alone does not end the call
C5_MatchAtEntry ==
    /\ [][AtEntry /\ Len(result_list) = plist_len =>
             /\ pc' = "gbrl_done"
             /\ out' = <<result_list, 0>>
             /\ NoRetry']_vars
    /\ [][pc = "gbrl_done" /\ out[2] = 0 /\ NoRetry =>
             /\ pc' = "returned"
             /\ NoRetry'
             /\ (Len(out[1]) = plist_len => buglog' = <<>>)]_vars
    /\ [](pc \in {"gbrl_done", "returned"} /\ Len(result_list) = plist_len
             /\ out[2] = 0 => NoRetry)

\* a batch of two paragraphs returned on its first candidate
C5_Witness ==
    /\ pc = "returned"
    /\ plist_len = 2
    /\ Len(ret) = 2
    /\ out[2] = 0
    /\ NoRetry
    /\ buglog = <<>>

\* the step in which create_chat_completion answers without choices
MalformedStep == tcalls' = tcalls + 1 /\ completion' = "malformed"

\* C6 as stated: a malformed response makes translate raise at once
C6_MalformedFatal ==
    [][MalformedStep => pc' = "raised"]_vars

\* C6, amended: a malformed response yields no text, no candidate and no
\* oversize record; translate counts it as a failed attempt like any other
\* and calls the backend again unless it was the third consecutive failure,
\* on which it raises; after a raise nothing of the batch runs any more
C6_MalformedIsAFailure ==
    /\ [][MalformedStep =>
             /\ t_text' = t_text
             /\ result_list' = result_list
             /\ best_result_list' = best_result_list
             /\ long_text' = long_text
             /\ retry_count' = retry_count
             /\ attempt_count' = attempt_count + 1
             /\ IF attempt_count' = max_attempts
                THEN pc' = "raised"
                ELSE pc' = pc /\ attempt_count' < max_attempts]_vars
    /\ [][pc = "raised" => pc' = "translate_initial" /\ retry_count' = 0]_vars

\* translate is about to call the backend again after two malformed responses
C6_Witness ==
    /\ InTranslate
    /\ completion = "malformed"
    /\ attempt_count = 2
    /\ tcalls = 2

\* the step in which get_translation raises
FailedStep == tcalls' = tcalls + 1 /\ completion' \in {"error", "malformed"}

\* the step in which get_translation returns a text
SuccessStep == tcalls' = tcalls + 1 /\ completion' \in {"stop", "length"}

\* C7: one translate call makes at most 3 backend calls; the first
\* successful one ends the call with its text; after the third consecutive
\* failure the exception propagates, and a failure never makes translate
\* return
C7_TransientRetries ==
    /\ [](tcalls <= max_attempts /\ attempt_count <= max_attempts)
    /\ [](InTranslate => tcalls = attempt_count /\ t_text = <<>>)
    /\ [][SuccessStep =>
             /\ pc' \in {"gbrl", "while"}
             /\ tcalls' = attempt_count + 1
             /\ result_list' = SplitLines(t_text')]_vars
    /\ [][FailedStep =>
             /\ pc' = IF tcalls' = max_attempts THEN "raised" ELSE pc
             /\ t_text' = <<>>
             /\ result_list' = result_list]_vars
    /\ [](pc = "raised" => tcalls = max_attempts /\ attempt_count = max_attempts)

\* the third consecutive failure of one translate call has been raised
C7_Witness ==
    /\ pc = "raised"
    /\ tcalls = 3
    /\ completion = "error"
    /\ retry_count > 0

\* C8: a completion cut for length is no failure: get_translation appends
\* one record holding the request text to the oversize log and returns the
\* partial text, which becomes the candidate of that attempt; a normally
\* finished completion appends nothing
C8_Truncated ==
    /\ [][tcalls' = tcalls + 1 /\ completion' = "length" =>
             /\ long_text' = Append(long_text, new_str)
             /\ attempt_count' = attempt_count
             /\ pc' \in {"gbrl", "while"}
             /\ result_list' = SplitLines(t_text')]_vars
    /\ [][tcalls' = tcalls + 1 /\ completion' # "length" =>
             long_text' = long_text]_vars
    /\ [][tcalls' = tcalls => long_text' = long_text \/ long_text' = <<>>]_vars

\* a truncated first completion whose partial text is the first candidate
C8_Witness ==
    /\ pc = "gbrl"
    /\ completion = "length"
    /\ long_text = <<new_str>>
    /\ result_list # <<>>
    /\ result_list = SplitLines(t_text)

\* the stripped text of the paragraph has no blank line inside
OneBlock(p) ==
    LET ls == Split(ParagraphText(p), <<NL>>) IN
    \A i \in 1..Len(ls) : Len(ls) = 1 \/ Strip(ls[i]) # <<>>

AfterFirstAnswer ==
    pc \in {"gbrl", "while", "slept", "translate_retry", "gbrl_done", "returned"}

\* what C9 promises of a call answered by echoes only
EchoedAtOnce ==
    /\ NoRetry
    /\ tcalls = 1
    /\ Len(result_list) = Len(plist)
    /\ (pc = "returned" => Len(ret) = Len(plist) /\ out[2] = 0)

\* C9 as stated: every non-empty paragraph list, answered by a backend that
\* returns its request, takes one backend request and no retry, and the
\* list returned is as long as the paragraph list
C9_PassThrough ==
    (AfterFirstAnswer /\ passthrough /\ plist # <<>>) => EchoedAtOnce

\* C9, amended: the same for every non-empty paragraph list none of whose
\* paragraphs has a blank line inside its stripped text
C9_PassThroughOneBlock ==
    (AfterFirstAnswer /\ passthrough /\ plist # <<>>
        /\ \A i \in 1..Len(plist) : OneBlock(plist[i])) => EchoedAtOnce

\* two soft-wrapped paragraphs came back as two lines on the first request
C9_Witness ==
    /\ pc = "returned"
    /\ passthrough
    /\ Len(plist) = 2
    /\ \A i \in 1..Len(plist) : OneBlock(plist[i])
    /\ Len(ret) = 2
    /\ tcalls = 1

\* C10: every backend call, failed attempts and reconciliation retries
\* included, rotates the key exactly once and nothing else does: the n-th
\* call uses the n-th key of the cyclic order, so with several keys no key
\* is used twice in a row
C10_RoundRobin ==
    /\ [](IF api_key = -1 THEN served = 0
           ELSE api_key = (served + key_len - 1) % key_len)
    /\ [][tcalls' = tcalls + 1 =>
             /\ served' = (served + 1) % key_len
             /\ api_key' = served
             /\ (key_len > 1 => api_key' # api_key)]_vars
    /\ [][tcalls' # tcalls + 1 => api_key' = api_key /\ served' = served]_vars

\* a failed attempt of a reconciliation retry used the second of two keys
C10_Witness ==
    /\ key_len = 2
    /\ api_key = 1
    /\ retry_count > 0
    /\ completion = "error"
    /\ attempt_count = 2

\* s begins with a parenthesized number, or with a number, followed or not
\* by a period
StartsWithEnum(s) ==
    /\ s # <<>>
    /\ \/ IsDigit(s[1])
       \/ /\ s[1] = "("
          /\ \E k \in 3..Len(s) :
                 s[k] = ")" /\ \A j \in 2..(k - 1) : IsDigit(s[j])

IsSuffix(r, s) == Len(r) <= Len(s) /\ SubSeq(s, Len(s) - Len(r) + 1, Len(s)) = r

\* C11 as stated: stripping the leading enumeration of a returned line once
\* more changes nothing
C11_Idempotent ==
    pc = "returned" => \A i \in 1..Len(ret) : StripPrefix(ret[i]) = ret[i]

\* C11, amended: one application removes one leading enumeration and the
\* whitespace after it, and nothing from a line that begins with none; a
\* second application changes the result only if what is left begins with
\* an enumeration again
C11_OneArtifact ==
    pc = "returned" =>
        \A i \in 1..Len(ret) :
            LET s == out[1][i]
                r == ret[i]
            IN  /\ IsSuffix(r, s)
                /\ r = <<>> \/ ~IsSpace(r[1])
                /\ (StartsWithEnum(s) => r # s)
                /\ (~StartsWithEnum(s) => r = s)
                /\ (~StartsWithEnum(r) => StripPrefix(r) = r)

\* the line "1.a" came back as "a", which a second application leaves alone
C11_Witness ==
    /\ pc = "returned"
    /\ out[1] = << <<"1", ".", "a">> >>
    /\ ret = << <<"a">> >>
    /\ StripPrefix(ret[1]) = ret[1]

\* one non-empty line that begins with no enumeration
SimpleLine(p) ==
    /\ p # <<>>
    /\ \A i \in 1..Len(p) : p[i] # NL
    /\ ~StartsWithEnum(p)

\* no whitespace around, no footnote marker and no ^M inside
CleanLine(p) ==
    /\ Strip(p) = p
    /\ \A i \in 1..Len(p) : p[i] # SUP
    /\ \A i \in 1..(Len(p) - 1) : ~(p[i] = "^" /\ p[i + 1] = "M")

\* a call on one-line paragraphs, answered by echoes only, has returned
EchoReturned(ok(_)) ==
    /\ pc = "returned"
    /\ passthrough
    /\ plist # <<>>
    /\ \A i \in 1..Len(plist) : ok(plist[i])

\* C13 as stated: one-line paragraphs that begin with no enumeration come
\* back from an echoing backend exactly as they were, in their order
C13_RoundTrip ==
    EchoReturned(SimpleLine) => ret = plist

SimpleCleanLine(p) == SimpleLine(p) /\ CleanLine(p)

\* C13, amended: the same for one-line paragraphs that moreover have no
\* whitespace around them, no footnote marker and no ^M inside
C13_RoundTripClean ==
    EchoReturned(SimpleCleanLine) => ret = plist

\* the paragraphs a, b, c came back as a, b, c
C13_Witness ==
    /\ pc = "returned"
    /\ passthrough
    /\ plist = << <<"a">>, <<"b">>, <<"c">> >>
    /\ ret = plist
    /\ tcalls = 1

\* the step in which a request goes to the backend
RequestStep == tcalls' = tcalls + 1

InCall == pc \notin {"idle", "returned", "raised"}

\* C12: every backend request of one translate_list call, the first one,
\* those of the reconciliation retries and those after a failed attempt,
\* carries the text the Batcher packed at the start of the call; that text
\* is not changed during the call, and the mismatch record splits the same
\* text by the separator
C12_SameRequest ==
    /\ [][RequestStep => req_text = new_str /\ new_str = PackTable[plist]]_vars
    /\ [][InCall => new_str' = new_str /\ plist' = plist]_vars
    /\ [][(InTranslate /\ pc' = pc) => (req_text' = req_text)]_vars
    /\ [](\A i \in 1..Len(long_text) : long_text[i] = new_str)
    /\ [](\A i \in 1..Len(buglog) :
              buglog[i].kind = "mismatch" => buglog[i].request = Split(PackTable[plist], sep))

\* a call that used every retry, the last one after a failed attempt, and
\* wrote a mismatch record
C12_Witness ==
    /\ pc = "returned"
    /\ Len(plist) = 2
    /\ retry_count = DEFAULT_MAX_RETRIES
    /\ attempt_count > 0
    /\ HasMismatchRecord

\* C14: a reconciliation retry sleeps once, then counts the retry, then
\* calls the backend; the sleep starts only after the candidate before it
\* was taken, a request of retry N is made only after N sleeps and N
\* increments, and the retry count returned is the number of sleeps
C14_RetryOrder ==
    /\ [](backoffs = retry_count + (IF pc = "slept" THEN 1 ELSE 0))
    /\ [][backoffs' = backoffs + 1 =>
             /\ pc = "while"
             /\ retry_count' = retry_count
             /\ translate_calls' = translate_calls
             /\ ~RequestStep]_vars
    /\ [][retry_count' = retry_count + 1 =>
             /\ backoffs = retry_count + 1
             /\ backoffs' = backoffs
             /\ tcalls' = 0]_vars
    /\ [][(RequestStep /\ pc = "translate_retry") =>
             /\ retry_count >= 1
             /\ backoffs = retry_count
             /\ translate_calls = retry_count + 1
             /\ backoffs' = backoffs
             /\ retry_count' = retry_count]_vars
    /\ [](pc \in {"gbrl_done", "returned"} => out[2] = backoffs)

\* a call returned after three retries and three sleeps
C14_Witness ==
    /\ pc = "returned"
    /\ out[2] = 3
    /\ backoffs = 3
    /\ translate_calls = 4

\* C15: whenever the loop guard is evaluated the latest candidate has the
\* expected length exactly if best_result_list has it; best_result_list
\* starts as the first candidate and is afterwards either kept or replaced
\* by the candidate just produced, a candidate of the expected length is
\* always taken, and what is returned is the matching candidate or best
C15_GuardOnLatest ==
    /\ [](pc = "while" =>
              (Len(result_list) = plist_len <=> Len(best_result_list) = plist_len))
    /\ [][(pc = "gbrl" /\ pc' = "while") => (best_result_list' = result_list)]_vars
    /\ [][CandidateStep =>
             /\ best_result_list' \in {best_result_list, result_list'}
             /\ Len(best_result_list) # plist_len
             /\ (Len(result_list') = plist_len => best_result_list' = result_list')]_vars
    /\ [](pc = "gbrl_done" =>
              /\ out[1] = (IF out[2] = 0 /\ Len(result_list) = plist_len
                           THEN result_list ELSE best_result_list)
              /\ (Len(result_list) = plist_len => out[1] = result_list))

\* the loop guard is evaluated after a second retry brought a match
C15_Witness ==
    /\ pc = "while"
    /\ retry_count = 2
    /\ Len(result_list) = plist_len
    /\ best_result_list = result_list

\* C16: a best_result_list that is not longer than expected is never
\* replaced by a longer-than-expected candidate and never gets shorter; a
\* best_result_list that is longer than expected only gets shorter; so its
\* length, once at or below the expected count, stays there
C16_Direction ==
    [][CandidateStep =>
          /\ (Len(best_result_list) <= plist_len =>
                 /\ Len(best_result_list') <= plist_len
                 /\ Len(best_result_list') >= Len(best_result_list))
          /\ (Len(best_result_list) > plist_len =>
                 \/ best_result_list' = best_result_list
                 \/ Len(best_result_list') < Len(best_result_list))]_vars

\* a best of 7 lines came down to 6 and then to 3 lines, expected 5, and a
\* candidate of 8 lines did not replace it
C16_Witness ==
    /\ pc = "while"
    /\ plist_len = 5
    /\ retry_count = 3
    /\ Len(best_result_list) = 3
    /\ Len(result_list) = 8

\* C17: the third consecutive failure of a backend request made by a
\* reconciliation retry ends translate_list with the exception: nothing is
\* returned, the best candidate included, and neither a retry summary nor
\* a mismatch record is written for the batch
C17_HardFailure ==
    /\ [][(FailedStep /\ pc = "translate_retry" /\ tcalls' = max_attempts) =>
             /\ pc' = "raised"
             /\ out' = <<>>
             /\ ret' = <<>>
             /\ buglog' = <<>>]_vars
    /\ [](pc = "raised" => out = <<>> /\ ret = <<>> /\ buglog = <<>>)
    /\ [][pc = "raised" =>
             pc' = "translate_initial" /\ best_result_list' = <<>>]_vars

\* a retry failed for good while a best candidate of one line was held
C17_Witness ==
    /\ pc = "raised"
    /\ retry_count = 2
    /\ Len(best_result_list) = 1
    /\ plist_len = 2
    /\ buglog = <<>>

\* C18: a translate_list call comes to an end, by a return or an
\* exception; it makes at most 1 + 15 translate calls of at most 3 backend
\* requests each, 48 at most; retry_count and attempt_count never decrease
\* within the loop they count, and attempt_count starts at 0 in every
\* translate call
C18_Terminates ==
    /\ InCall ~> ~InCall
    /\ [](translate_calls <= 1 + DEFAULT_MAX_RETRIES)
    /\ [](tcalls <= max_attempts)
    /\ [](requests <= max_attempts * translate_calls)
    /\ [](requests <= 48)
    /\ [][(InCall /\ InCall') => retry_count' >= retry_count]_vars
    /\ [][InTranslate => attempt_count' >= attempt_count]_vars
    /\ [][(~InTranslate /\ InTranslate') =>
             attempt_count' = 0 /\ tcalls' = 0]_vars

\* a call that made 16 translate calls of 3 backend requests each
C18_Witness ==
    /\ pc = "returned"
    /\ translate_calls = 16
    /\ requests = 48

IsRetryRecord(r) == r.kind = "retry"

\* C19: translate_list writes a retry summary exactly if it made at least
\* one reconciliation retry, before any mismatch record, with the retry
\* count and the label success if the list returned has the expected
\* length and fail if not; a batch that matched after retries writes the
\* summary alone, and a batch whose first candidate matched writes nothing
C19_RetrySummary ==
    /\ (pc # "returned" => buglog = <<>>)
    /\ (pc = "returned" =>
           LET summaries == SelectSeq(buglog, IsRetryRecord)
               label == IF Len(ret) = plist_len THEN "success" ELSE "fail"
           IN  /\ Len(summaries) = (IF out[2] > 0 THEN 1 ELSE 0)
               /\ (out[2] > 0 =>
                      buglog[1] = [kind |-> "retry", state |-> label, count |-> out[2]])
               /\ (Len(ret) = plist_len => Len(buglog) = Len(summaries))
               /\ (Len(ret) = plist_len /\ out[2] = 0 => buglog = <<>>)
               /\ (Len(ret) # plist_len =>
                      Len(buglog) = Len(summaries) + 1
                      /\ buglog[Len(buglog)].kind = "mismatch"))

\* a batch that matched on its second retry wrote the summary and nothing
\* else
C19_Witness ==
    /\ pc = "returned"
    /\ out[2] = 2
    /\ Len(ret) = plist_len
    /\ buglog = <<[kind |-> "retry", state |-> "success", count |-> 2]>>

====
